---- MODULE Spec2Model ----
(***************************************************************************)
(* Model of cifti_roi.py: the overlap resolver get_roi_name, the record    *)
(* writer write_spread, the loaders with their transient files, the        *)
(* orchestrator proc_stat_cluster and the command-line dispatch.           *)
(***************************************************************************)
EXTENDS Integers, Sequences, FiniteSets, TLC

\* ------------------------------------------------------------------ bounds
\* longest cluster mask / atlas label sequence enumerated
MaxLen == 3
\* largest atlas label id enumerated (0 is background)
MaxLabel == 2
\* longest ROI list the volumetric collaborator returns
MaxVol == 2
\* number of write_spread calls in one run of the writer specification
MaxWrites == 3

\* ------------------------------------------------------------ input domains
Names == {"A", "B"}
MaskVals == {0, 1}
Labels == 0..MaxLabel

SeqsUpTo(S, n) == UNION {[1..k -> S] : k \in 0..n}

\* label tables: label id (positive integer) -> region name, any key may be absent
Tables == UNION {[K -> Names] : K \in SUBSET (1..MaxLabel)}

Range(s) == {s[i] : i \in DOMAIN s}

VARIABLES
    pc,            \* position of the running code
    cluster_data,  \* get_roi_name: the cluster mask argument
    atlas_data,    \* get_roi_name: the caller's atlas label array (numpy, passed by reference)
    atlas_dict,    \* get_roi_name: the label table argument
    atlas_in,      \* value of atlas_data when get_roi_name was called
    ret,           \* get_roi_name: [raised, roi_list]
    system,        \* what platform.system() returns on this host
    args,          \* the parsed command line
    files,         \* intermediate files present in the working directory
    csv,           \* output tables on disk, by path
    csv0,          \* the output tables as they were when the process started
    roi_list,      \* proc_stat_cluster: the accumulator
    tmp_list,      \* proc_stat_cluster: the latest per-modality result
    res,           \* what each modality's resolution returned (history)
    volRan,        \* load_vol_data was called and returned
    ran,           \* proc_stat_cluster was called
    wrote,         \* write_spread was called by proc_stat_cluster
    invoked,       \* external collaborators invoked so far
    raised,        \* the function whose exception ended the process, or "none"
    exit_code,     \* exit status of the process
    calls          \* write_spread calls made so far, in call order (history)

rvars == <<cluster_data, atlas_data, atlas_dict, atlas_in, ret>>
pvars == <<system, args, files, csv0, roi_list, tmp_list, res, volRan, ran,
           wrote, invoked, raised, exit_code>>
wvars == <<csv, calls>>

\* ------------------------------------------------------------ get_roi_name
RECURSIVE mask_loop(_, _, _)
\* lines 199-201: zero the atlas in place wherever the mask is 0; writing past
\* the end of the numpy array raises IndexError with the earlier writes kept
mask_loop(cluster, atlas, idx) ==
    IF idx > Len(cluster)
    THEN [raised |-> "none", atlas_data |-> atlas]
    ELSE IF cluster[idx] = 0
         THEN IF idx > Len(atlas)
              THEN [raised |-> "IndexError", atlas_data |-> atlas]
              ELSE mask_loop(cluster, [atlas EXCEPT ![idx] = 0], idx + 1)
         ELSE mask_loop(cluster, atlas, idx + 1)

SetMin(S) == CHOOSE m \in S : \A x \in S : m <= x

RECURSIVE SortedSeq(_)
SortedSeq(S) ==
    IF S = {} THEN <<>>
    ELSE LET m == SetMin(S) IN <<m>> \o SortedSeq(S \ {m})

RECURSIVE encounter_unique(_, _)
\* distinct values in first-occurrence order (no sort)
encounter_unique(a, seen) ==
    IF a = <<>> THEN <<>>
    ELSE IF Head(a) \in seen THEN encounter_unique(Tail(a), seen)
         ELSE <<Head(a)>> \o encounter_unique(Tail(a), seen \cup {Head(a)})

np_unique_unsorted(a) == encounter_unique(a, {})

\* np.unique: the sorted distinct values of the array
np_unique(a) == SortedSeq(Range(a))

\* the slice [1:] of line 206
drop_first(u) == IF Len(u) = 0 THEN <<>> ELSE Tail(u)

RECURSIVE lookup_loop(_, _, _)
\* lines 206-209: atlas_dict[i] for every id in turn; a missing key raises KeyError
lookup_loop(ids, dict, acc) ==
    IF ids = <<>>
    THEN [raised |-> "none", roi_list |-> acc]
    ELSE IF Head(ids) \notin DOMAIN dict
         THEN [raised |-> "KeyError", roi_list |-> <<>>]
         ELSE lookup_loop(Tail(ids), dict, Append(acc, dict[Head(ids)]))

\* lines 185-211
get_roi_name(cluster, atlas, dict) ==
    LET m == mask_loop(cluster, atlas, 1) IN
    IF m.raised # "none"
    THEN [raised |-> m.raised, roi_list |-> <<>>, atlas_data |-> m.atlas_data]
    ELSE LET l == lookup_loop(drop_first(np_unique(m.atlas_data)), dict, <<>>) IN
         [raised |-> l.raised, roi_list |-> l.roi_list, atlas_data |-> m.atlas_data]

NoRet == [raised |-> "none", roi_list |-> <<>>]

\* what get_roi_name can do with the arrays the loaders deliver
RoiResults ==
    {LET r == get_roi_name(t[1], t[2], t[3]) IN
        [raised |-> r.raised, roi_list |-> r.roi_list] :
     t \in SeqsUpTo(MaskVals, MaxLen) \X SeqsUpTo(Labels, MaxLen) \X Tables}

\* ------------------------------------------------- loaders, transient files
GiiLabel == "data.label.gii"
GiiData == "data.func.gii"
VolData == "data.nii.gz"
CiiData == "clusters.dscalar.nii"

\* an external extraction step: whether wb_command wrote its output file and
\* whether nibabel then reads what it needs from it
LoadExt == [created : BOOLEAN, readable : BOOLEAN]

\* lines 95-113: extract to data.label.gii, read it, remove it
load_hemi_labels(fs, e) ==
    LET fs1 == IF e.created THEN fs \cup {GiiLabel} ELSE fs IN
    IF GiiLabel \notin fs1 \/ ~e.readable
    THEN [raised |-> TRUE, files |-> fs1]
    ELSE [raised |-> FALSE, files |-> fs1 \ {GiiLabel}]

\* lines 168-183: extract from the cluster file to data.func.gii, read it
\* (load_gii_data), remove it
load_hemi_data(fs, e) ==
    LET fs1 == IF e.created /\ CiiData \in fs THEN fs \cup {GiiData} ELSE fs IN
    IF GiiData \notin fs1 \/ ~e.readable
    THEN [raised |-> TRUE, files |-> fs1]
    ELSE [raised |-> FALSE, files |-> fs1 \ {GiiData}]

HemiExt == [labels : LoadExt, data : LoadExt, roi : RoiResults]

\* lines 304-313
proc_hemi(fs, e) ==
    LET a == load_hemi_labels(fs, e.labels) IN
    IF a.raised
    THEN [raised |-> "load_hemi_labels", files |-> a.files, roi_list |-> <<>>]
    ELSE LET b == load_hemi_data(a.files, e.data) IN
         IF b.raised
         THEN [raised |-> "load_hemi_data", files |-> b.files, roi_list |-> <<>>]
         ELSE IF e.roi.raised # "none"
              THEN [raised |-> "get_roi_name", files |-> b.files, roi_list |-> <<>>]
              ELSE [raised |-> "none", files |-> b.files, roi_list |-> e.roi.roi_list]

\* the volumetric collaborator (nifti_roi): whether the volume was extracted,
\* whether the lookup raises, and the ROI list it returns
VolExt == [created : BOOLEAN, raises : BOOLEAN, roi_list : SeqsUpTo(Names, MaxVol)]

\* lines 331-356: extract to data.nii.gz, look the clusters up, remove it
load_vol_data(fs, e) ==
    LET fs1 == IF e.created THEN fs \cup {VolData} ELSE fs IN
    IF VolData \notin fs1 \/ e.raises
    THEN [raised |-> "load_vol_data", files |-> fs1, roi_list |-> <<>>]
    ELSE [raised |-> "none", files |-> fs1 \ {VolData}, roi_list |-> e.roi_list]

\* ------------------------------------------------------------- write_spread
\* a path is its sequence of components: a stem followed by dotted suffixes
Exts == {".csv", ".tsv", ".txt", ".dat"}
OutPaths == {<<"out">>, <<"out", ".csv">>, <<"out", ".tsv">>, <<"out", ".txt">>,
             <<"out", ".dat">>, <<"out", ".csv", ".dat">>}

\* '<suffix>' in out_file
Contains(p, suffix) == \E i \in DOMAIN p : p[i] = suffix

\* os.path.splitext(p)[0]
splitext_root(p) ==
    IF Len(p) >= 2 /\ p[Len(p)] \in Exts THEN SubSeq(p, 1, Len(p) - 1) ELSE p

\* lines 261-271
normalise(out_file) ==
    IF Contains(out_file, ".csv") \/ Contains(out_file, ".tsv")
       \/ Contains(out_file, ".txt")
    THEN Append(splitext_root(out_file), ".csv")
    ELSE out_file

Targets == {normalise(p) : p \in OutPaths}

Cwd == <<"/", "cwd">>
InFiles == {<<"stat.dscalar.nii">>, <<"/", "data", "stat.dscalar.nii">>}

\* os.path.abspath, line 274
abspath(file) == IF Head(file) = "/" THEN file ELSE Cwd \o file

Header == [kind |-> "header", File |-> <<"File">>, ROIs |-> <<"ROIs">>]
NoTable == [exists |-> FALSE, rows |-> <<>>]

\* lines 275-279: a one-row frame, the ROI list in a single field
data_row(file, rois) == [kind |-> "data", File |-> abspath(file), ROIs |-> rois]

to_csv_header_always(old, row) ==
    [exists |-> TRUE, rows |-> old.rows \o <<Header, row>>]

\* lines 282-285: append without a header to an existing file, else create
\* the file with the header
to_csv(old, row) ==
    IF old.exists
    THEN [exists |-> TRUE, rows |-> Append(old.rows, row)]
    ELSE [exists |-> TRUE, rows |-> <<Header, row>>]

\* lines 248-287
write_spread(store, file, out_file, rois) ==
    LET target == normalise(out_file) IN
    [store EXCEPT ![target] = to_csv(store[target], data_row(file, rois))]

\* -------------------------------------------------------- proc_stat_cluster
prepend(acc, tmp) == tmp \o acc

\* lines 389-392 and 399-402: extend the accumulator unless the result is empty
accumulate(acc, tmp) == IF Len(tmp) = 0 THEN acc ELSE acc \o tmp

write_always(rois) == TRUE

\* line 405
should_write(rois) == Len(rois) # 0

\* str.lower on the platform names
lower(s) == CASE s = "Windows" -> "windows"
              [] s = "Linux" -> "linux"
              [] OTHER -> s

CiiFile == <<"stat.dscalar.nii">>
OutFile == <<"out", ".tsv">>

NoArgs == [parse_ok |-> TRUE, dump_vol_atlases |-> FALSE, cii_file |-> FALSE,
           out_file |-> FALSE, left_gii |-> FALSE, right_gii |-> FALSE,
           cii_atlas |-> FALSE, vol_atlas |-> FALSE, vol_info |-> FALSE,
           vol_atlas_num |-> "None"]

\* command lines: whether each string option was given, the atlas number as
\* parsed (absent, 0 or a positive number), and whether argparse accepted them
ArgSets == [parse_ok : BOOLEAN, dump_vol_atlases : BOOLEAN, cii_file : BOOLEAN,
            out_file : BOOLEAN, left_gii : BOOLEAN, right_gii : BOOLEAN,
            cii_atlas : BOOLEAN, vol_atlas : BOOLEAN, vol_info : BOOLEAN,
            vol_atlas_num : {"None", "0", "4"}]

\* truth value of args.vol_atlas_num
truthy(n) == n \notin {"None", "0"}

NoRes == [L |-> <<>>, R |-> <<>>, V |-> <<>>]

IdleResolve ==
    /\ cluster_data = <<>> /\ atlas_data = <<>> /\ atlas_dict = <<>>
    /\ atlas_in = <<>> /\ ret = NoRet

IdleProcess ==
    /\ args = NoArgs /\ files = {} /\ roi_list = <<>> /\ tmp_list = <<>>
    /\ res = NoRes /\ volRan = FALSE /\ ran = FALSE /\ wrote = FALSE
    /\ invoked = {} /\ raised = "none" /\ exit_code = 0

Init ==
    /\ pc = "cli"
    /\ system \in {"Linux", "Windows"}
    /\ csv0 \in {[t \in Targets |-> NoTable],
                 [t \in Targets |->
                    IF t = normalise(OutFile)
                    THEN [exists |-> TRUE,
                          rows |-> <<Header, data_row(CiiFile, <<"B">>)>>]
                    ELSE NoTable]}
    /\ csv = csv0
    /\ calls = <<>>
    /\ IdleProcess
    /\ IdleResolve

Exit(code) == pc' = "exit" /\ exit_code' = code

\* lines 508-534
Main ==
    /\ pc = "cli"
    /\ \E a \in ArgSets :
        /\ args' = a
        /\ IF ~a.parse_ok
           THEN Exit(2) /\ UNCHANGED <<invoked, ran>>
           ELSE IF a.dump_vol_atlases
           THEN Exit(0) /\ invoked' = invoked \cup {"print_atlases"}
                /\ UNCHANGED ran
           ELSE IF a.cii_file /\ a.out_file /\ a.left_gii /\ a.right_gii
                   /\ a.cii_atlas
           THEN IF (a.vol_atlas /\ a.vol_info) \/ truthy(a.vol_atlas_num)
                THEN pc' = "find_clusters" /\ ran' = TRUE
                     /\ UNCHANGED <<invoked, exit_code>>
                ELSE Exit(0) /\ UNCHANGED <<invoked, ran>>
           ELSE Exit(1) /\ UNCHANGED <<invoked, ran>>
    /\ UNCHANGED <<system, files, csv0, roi_list, tmp_list, res, volRan,
                   wrote, raised>>
    /\ UNCHANGED <<rvars, wvars>>

Raise(who) == pc' = "exit" /\ exit_code' = 1 /\ raised' = who

\* lines 378-382 (find_clusters, lines 228-246)
FindClusters ==
    /\ pc = "find_clusters"
    /\ \E created \in BOOLEAN :
        files' = IF created THEN files \cup {CiiData} ELSE files
    /\ invoked' = invoked \cup {"wb_command"}
    /\ roi_list' = <<>>
    /\ tmp_list' = <<>>
    /\ pc' = "CORTEX_LEFT"
    /\ UNCHANGED <<system, args, csv0, res, volRan, ran, wrote, raised, exit_code>>
    /\ UNCHANGED <<rvars, wvars>>

\* lines 387-392, one iteration of the loop over wb_structs
ProcHemi(wb_struct, key, next) ==
    /\ pc = wb_struct
    /\ \E e \in HemiExt :
        LET r == proc_hemi(files, e) IN
        /\ files' = r.files
        /\ IF r.raised # "none"
           THEN Raise(r.raised) /\ UNCHANGED <<roi_list, tmp_list, res>>
           ELSE /\ tmp_list' = r.roi_list
                /\ roi_list' = accumulate(roi_list, r.roi_list)
                /\ res' = [res EXCEPT ![key] = r.roi_list]
                /\ pc' = next
                /\ UNCHANGED <<raised, exit_code>>
    /\ UNCHANGED <<system, args, csv0, volRan, ran, wrote, invoked>>
    /\ UNCHANGED <<rvars, wvars>>

\* lines 394-402
VolStep ==
    /\ pc = "volume"
    /\ IF CiiData \notin files
       THEN Raise("os.remove")
            /\ UNCHANGED <<files, roi_list, tmp_list, res, volRan, invoked>>
       ELSE IF lower(system) # "windows"
       THEN \E e \in VolExt :
            LET v == load_vol_data(files \ {CiiData}, e) IN
            /\ files' = v.files
            /\ invoked' = invoked \cup {"nifti_roi"}
            /\ IF v.raised # "none"
               THEN Raise(v.raised) /\ UNCHANGED <<roi_list, tmp_list, res, volRan>>
               ELSE /\ tmp_list' = v.roi_list
                    /\ roi_list' = accumulate(roi_list, v.roi_list)
                    /\ res' = [res EXCEPT !.V = v.roi_list]
                    /\ volRan' = TRUE
                    /\ pc' = "write"
                    /\ UNCHANGED <<raised, exit_code>>
       ELSE /\ files' = files \ {CiiData}
            /\ roi_list' = accumulate(roi_list, tmp_list)
            /\ pc' = "write"
            /\ UNCHANGED <<tmp_list, res, volRan, invoked, raised, exit_code>>
    /\ UNCHANGED <<system, args, csv0, ran, wrote>>
    /\ UNCHANGED <<rvars, calls>>
    /\ UNCHANGED csv

\* lines 404-408
WriteStep ==
    /\ pc = "write"
    /\ IF should_write(roi_list)
       THEN csv' = write_spread(csv, CiiFile, OutFile, roi_list) /\ wrote' = TRUE
       ELSE UNCHANGED <<csv, wrote>>
    /\ Exit(0)
    /\ UNCHANGED <<system, args, files, csv0, roi_list, tmp_list, res, volRan,
                   ran, invoked, raised>>
    /\ UNCHANGED <<rvars, calls>>

vars == <<pc, rvars, pvars, wvars>>

Next ==
    \/ Main
    \/ FindClusters
    \/ ProcHemi("CORTEX_LEFT", "L", "CORTEX_RIGHT")
    \/ ProcHemi("CORTEX_RIGHT", "R", "volume")
    \/ VolStep
    \/ WriteStep

Spec == Init /\ [][Next]_vars

\* ------------------------------------------- get_roi_name on bounded inputs
InitResolve ==
    /\ pc = "call_get_roi_name"
    /\ cluster_data \in SeqsUpTo(MaskVals, MaxLen)
    /\ atlas_data \in SeqsUpTo(Labels, MaxLen)
    /\ atlas_dict \in Tables
    /\ atlas_in = atlas_data
    /\ ret = NoRet
    /\ system = "Linux"
    /\ csv0 = [t \in Targets |-> NoTable]
    /\ csv = csv0
    /\ calls = <<>>
    /\ IdleProcess

GetRoiName ==
    /\ pc = "call_get_roi_name"
    /\ LET r == get_roi_name(cluster_data, atlas_data, atlas_dict) IN
        /\ atlas_data' = r.atlas_data
        /\ ret' = [raised |-> r.raised, roi_list |-> r.roi_list]
    /\ pc' = "returned_get_roi_name"
    /\ UNCHANGED <<cluster_data, atlas_dict, atlas_in>>
    /\ UNCHANGED <<pvars, wvars>>

NextResolve == GetRoiName

SpecResolve == InitResolve /\ [][NextResolve]_vars

\* ------------------------------------------ write_spread called repeatedly
WriteLists == {<<"A">>, <<"B", "A">>}

InitWrite ==
    /\ pc = "writer"
    /\ system = "Linux"
    /\ csv0 = [t \in Targets |-> NoTable]
    /\ csv = csv0
    /\ calls = <<>>
    /\ IdleProcess
    /\ IdleResolve

WriteSpread ==
    /\ pc = "writer"
    /\ Len(calls) < MaxWrites
    /\ \E file \in InFiles, out_file \in OutPaths, rois \in WriteLists :
        /\ csv' = write_spread(csv, file, out_file, rois)
        /\ calls' = Append(calls, [out_file |-> out_file, row |-> data_row(file, rois)])
    /\ UNCHANGED <<pc, rvars, pvars>>

NextWrite == WriteSpread

SpecWrite == InitWrite /\ [][NextWrite]_vars

Returned == pc = "returned_get_roi_name" /\ ret.raised = "none"

Aligned == Len(cluster_data) = Len(atlas_in)

\* element indices inside a cluster that carry a nonzero label
Overlap == {i \in DOMAIN cluster_data \cap DOMAIN atlas_in :
                cluster_data[i] # 0 /\ atlas_in[i] # 0}

SurvivingIds == {atlas_in[i] : i \in Overlap}

\* C1: for aligned inputs a region name is in the returned list if and only if
\* some index has a nonzero mask value and a nonzero label that is a key of
\* the table mapped to that name
C1_NameIffOverlap ==
    (Returned /\ Aligned) =>
        \A n \in Names :
            (n \in Range(ret.roi_list)) <=>
                (\E i \in Overlap : atlas_in[i] \in DOMAIN atlas_dict
                                    /\ atlas_dict[atlas_in[i]] = n)

\* C2: the returned list is the names of some of the surviving label ids, each
\* id taken at most once, in ascending order of label id
C2_AscendingOncePerId ==
    (Returned /\ Aligned) =>
        \E T \in SUBSET SurvivingIds :
            /\ T \subseteq DOMAIN atlas_dict
            /\ ret.roi_list = [k \in 1..Cardinality(T) |-> atlas_dict[SortedSeq(T)[k]]]

C2_Witness ==
    /\ Returned /\ Aligned
    /\ Len(ret.roi_list) >= 2
    /\ \E i, j \in Overlap :
        /\ i < j /\ atlas_in[i] > atlas_in[j]
        /\ ret.roi_list = <<atlas_dict[atlas_in[j]], atlas_dict[atlas_in[i]]>>
        /\ atlas_dict[atlas_in[i]] # atlas_dict[atlas_in[j]]

\* C7: when a surviving nonzero label id has no entry in the table,
\* get_roi_name raises instead of returning a list
C7_MissingKeyRaises ==
    (pc = "returned_get_roi_name" /\ Aligned
        /\ \E id \in SurvivingIds : id \notin DOMAIN atlas_dict)
    => ret.raised # "none"

\* C9: after get_roi_name the caller's atlas label sequence is what it was
\* before the call
C9_AtlasUnchanged ==
    pc = "returned_get_roi_name" => atlas_data = atlas_in

\* ------------------------------------------------- claims on the pipeline
\* proc_stat_cluster got past the volume step without an exception
Finished == pc = "write" \/ (pc = "exit" /\ ran /\ raised = "none")

\* C3: on Windows the volume step is skipped and the accumulated list is the
\* left-hemisphere result followed by the right-hemisphere result
C3_WindowsLeftThenRight ==
    (Finished /\ lower(system) = "windows") => roi_list = res.L \o res.R

\* C4: when the volume step runs, the accumulated list is the left result
\* followed by the right result followed by the volume result
C4_LeftRightVolume ==
    (Finished /\ volRan) => roi_list = res.L \o res.R \o res.V

C4_Witness ==
    /\ pc = "exit" /\ ran /\ raised = "none" /\ volRan /\ wrote
    /\ Len(res.L) >= 2 /\ res.L[1] # res.L[2]
    /\ res.R # <<>> /\ res.V # <<>>
    /\ Range(res.L) \cap Range(res.V) # {}

\* C5: a proc_stat_cluster call whose combined ROI list is empty does not call
\* write_spread and leaves every output table as it was
C5_EmptyListNoWrite ==
    (pc = "exit" /\ ran /\ raised = "none" /\ roi_list = <<>>)
        => (~wrote /\ csv = csv0)

C5_Witness ==
    /\ pc = "exit" /\ ran /\ raised = "none" /\ roi_list = <<>>
    /\ volRan
    /\ csv0[normalise(OutFile)].exists

\* the data rows written so far, in call order, by the calls that target t
RowsFor(t) ==
    LET Hits(c) == normalise(c.out_file) = t
        hit == SelectSeq(calls, Hits)
    IN [k \in 1..Len(hit) |-> hit[k].row]

\* C6: starting without a table, after n >= 1 write_spread calls on a path the
\* table is one header row followed by the n data rows in call order
C6_HeaderThenRowsInOrder ==
    pc = "writer" =>
        \A t \in Targets :
            IF RowsFor(t) = <<>>
            THEN csv[t] = NoTable
            ELSE csv[t] = [exists |-> TRUE, rows |-> <<Header>> \o RowsFor(t)]

C6_Witness ==
    /\ pc = "writer"
    /\ \E i, j \in DOMAIN calls :
        /\ i < j
        /\ calls[i].out_file = calls[j].out_file
        /\ calls[i].row # calls[j].row
        /\ Len(csv[normalise(calls[i].out_file)].rows) = 3

\* C8: an invocation that is not in diagnostic mode either calls
\* proc_stat_cluster or exits nonzero without invoking an external collaborator
C8_RunsOrFailsNonzero ==
    (pc = "exit" /\ ~(args.parse_ok /\ args.dump_vol_atlases))
        => (ran \/ (exit_code # 0 /\ invoked = {}))

\* C10: outside the loading calls none of data.label.gii, data.func.gii and
\* data.nii.gz exists, whichever way the call that made it exited
C10_TransientsRemoved ==
    files \cap {GiiLabel, GiiData, VolData} = {}

\* C11: when the cluster mask and the atlas label sequence differ in length,
\* get_roi_name raises instead of returning a list
C11_MisalignedRaises ==
    (pc = "returned_get_roi_name" /\ Len(cluster_data) # Len(atlas_in))
        => ret.raised # "none"

====
